---- MODULE Spec2Model ----
(***************************************************************************)
(* git-yank: the orchestration sequence of src/src/index.js (the version   *)
(* that issues one cherry-pick for the joined commit list) and of          *)
(* src/unnamed/part_000 (the stash-enabled version that shows help on an   *)
(* empty commit list and cherry-picks commit by commit), run against a     *)
(* model of the git repository the commands act on.                        *)
(*                                                                         *)
(* A JavaScript string is a sequence of space-free words (the string is    *)
(* the words joined by single blanks; <<>> is the empty string).  A commit *)
(* object is the sequence of patches from the root to it, so a rewritten   *)
(* commit is a different object than the one it was rewritten from.        *)
(*                                                                         *)
(* One action is one turn of the node event loop: a git process exits,     *)
(* the awaiting handler resumes and runs up to the next await, which has   *)
(* spawned the next git process.                                           *)
(***************************************************************************)
EXTENDS Naturals, Sequences, FiniteSets, TLC

VARIABLES version, args, pc, i, sourceBranchName, hasStashedWorkingTree,
          repo, repo0, inflight, cmds, exits, diffExit, out, faults

vars == <<version, args, pc, i, sourceBranchName, hasStashedWorkingTree,
          repo, repo0, inflight, cmds, exits, diffExit, out, faults>>

\* Longest commit list given on the command line.
MaxCommits == 2
\* Most git invocations of one run that fail for a reason of the environment
\* (a conflict, a lock, a missing upstream) rather than of the command line.
MaxFaults == 2

(***************************************************************************)
(* Strings, template literals, split and join                              *)
(***************************************************************************)
Undefined == <<"undefined">>
EmptyString == <<>>
Str(w) == <<w>>

\* Array.prototype.join(' ')
Join(words) == words

\* String.prototype.split(' ') of one string
Split(s) == IF s = <<>> THEN << <<>> >> ELSE [k \in 1..Len(s) |-> <<s[k]>>]

RECURSIVE SplitTemplate(_)
\* `lit ${a} ${b}`.split(' '): parts are the blank-separated pieces of the
\* template, literal or interpolated
SplitTemplate(parts) ==
    IF parts = <<>> THEN <<>>
    ELSE Split(Head(parts)) \o SplitTemplate(Tail(parts))

\* `${s}~`
Tilde(s) == IF s = <<>> THEN <<"~">> ELSE [s EXCEPT ![Len(s)] = @ \o "~"]

\* The line end git writes after a name on standard output.
NL == "\\n"

RECURSIVE TrimEnd(_)
TrimEnd(s) ==
    IF s # <<>> /\ s[Len(s)] = NL THEN TrimEnd(SubSeq(s, 1, Len(s) - 1)) ELSE s

RECURSIVE TrimStart(_)
TrimStart(s) == IF s # <<>> /\ Head(s) = NL THEN TrimStart(Tail(s)) ELSE s

\* String.prototype.trim()
Trim(s) == TrimStart(TrimEnd(s))

(***************************************************************************)
(* The repository the commands act on                                      *)
(***************************************************************************)
Commits == {"c1", "c2", "x"}

\* The commit object an identifier names: its patches from the root.
History(c) ==
    CASE c = "c1" -> <<"a", "c1">>
      [] c = "c2" -> <<"a", "c1", "c2">>
      [] c = "x"  -> <<"a", "x">>

BranchNames == {"master", "work", "feat", "gen"}
NoCommit == <<>>
Detached == "(detached)"

Range(s) == {s[k] : k \in 1..Len(s)}
IsPrefix(s, t) == Len(s) <= Len(t) /\ SubSeq(t, 1, Len(s)) = s
Parent(h) == SubSeq(h, 1, Len(h) - 1)

\* git's reading of one revision argument; NoCommit when it names nothing.
Resolve(r, rev) ==
    IF Len(rev) # 1 THEN NoCommit
    ELSE IF rev[1] \in Commits THEN History(rev[1])
    ELSE IF \E c \in Commits : rev[1] = c \o "~"
         THEN Parent(History(CHOOSE c \in Commits : rev[1] = c \o "~"))
    ELSE IF rev[1] \in BranchNames THEN r.branches[rev[1]]
    ELSE NoCommit

\* A branch argument names an existing branch.
IsBranch(r, name) ==
    Len(name) = 1 /\ name[1] \in BranchNames /\ r.branches[name[1]] # NoCommit

RECURSIVE CommonPrefixLen(_, _)
CommonPrefixLen(s, t) ==
    IF s = <<>> \/ t = <<>> \/ Head(s) # Head(t) THEN 0
    ELSE 1 + CommonPrefixLen(Tail(s), Tail(t))

Outcome(code, err, stdout, r, fault) ==
    [code |-> code, err |-> err, stdout |-> stdout, repo |-> r, fault |-> fault]

(***************************************************************************)
(* What each git command does: the set of its possible outcomes.  An       *)
(* outcome with fault = TRUE is a failure the environment decides.         *)
(***************************************************************************)
\* rev-parse --abbrev-ref HEAD
GitRevParse(r) ==
    { Outcome(0, "none", <<r.head, NL>>, r, FALSE),
      Outcome(128, "Unparsed", EmptyString, r, TRUE) }

\* diff --quiet: 1 when the working tree differs from the index.  A stash
\* running beside it may or may not have cleaned the tree it reads.
GitDiffQuiet(r) ==
    IF r.dirty THEN {1} ELSE IF r.stash > 0 THEN {0, 1} ELSE {0}

\* stash
GitStash(r) ==
    IF r.dirty
    THEN { Outcome(0, "none", EmptyString,
                   [r EXCEPT !.dirty = FALSE, !.stash = @ + 1], FALSE),
           Outcome(1, "Unparsed", EmptyString, r, TRUE) }
    ELSE { Outcome(0, "none", EmptyString, r, FALSE) }

\* stash <argument>: pop applies and drops the latest stash entry; --pop is
\* no option of stash, git prints its usage
GitStashPop(r, argv) ==
    IF argv = << <<"stash">>, <<"pop">> >> /\ r.stash > 0
    THEN { Outcome(0, "none", EmptyString,
                   [r EXCEPT !.dirty = TRUE, !.stash = @ - 1], FALSE) }
    ELSE { Outcome(129, "Unparsed", EmptyString, r, FALSE) }

\* branch <name> <start-point>
GitBranch(r, argv) ==
    LET name == argv[2]
        start == Resolve(r, argv[3])
    IN  IF IsBranch(r, name)
        THEN { Outcome(128, "BranchAlreadyExists", EmptyString, r, FALSE) }
        ELSE IF Len(name) # 1 \/ name[1] \notin BranchNames \/ start = NoCommit
        THEN { Outcome(128, "Unparsed", EmptyString, r, FALSE) }
        ELSE { Outcome(0, "none", EmptyString,
                       [r EXCEPT !.branches[name[1]] = start], FALSE),
               Outcome(128, "OtherKnown", EmptyString, r, TRUE),
               Outcome(128, "Unparsed", EmptyString, r, TRUE) }

\* checkout <branch>
GitCheckout(r, argv) ==
    IF IsBranch(r, argv[2])
    THEN { Outcome(0, "none", EmptyString, [r EXCEPT !.head = argv[2][1]], FALSE),
           Outcome(1, "Unparsed", EmptyString, r, TRUE) }
    ELSE { Outcome(1, "Unparsed", EmptyString, r, FALSE) }

\* cherry-pick <commit>: one revision argument.  A revision that names no
\* commit is refused; a patch the branch already holds leaves nothing to
\* commit; otherwise the patch is committed on top of HEAD unless it conflicts.
GitCherryPick(r, argv) ==
    LET c == Resolve(r, argv[2])
    IN  IF c = NoCommit
        THEN { Outcome(128, "Unparsed", EmptyString, r, FALSE) }
        ELSE IF r.head = Detached \/ c[Len(c)] \in Range(r.branches[r.head])
        THEN { Outcome(1, "Unparsed", EmptyString, r, FALSE) }
        ELSE { Outcome(0, "none", EmptyString,
                       [r EXCEPT !.branches[r.head] = Append(@, c[Len(c)])], FALSE),
               Outcome(1, "Unparsed", EmptyString, r, TRUE) }

\* push
GitPush(r) ==
    IF r.head = Detached
    THEN { Outcome(128, "Unparsed", EmptyString, r, FALSE) }
    ELSE { Outcome(0, "none", EmptyString,
                   [r EXCEPT !.remote = @ \cup {r.head}], FALSE),
           Outcome(128, "Unparsed", EmptyString, r, TRUE) }

\* The commits of branch history h that upstream does not reach, less those
\* whose patch upstream already holds, replayed on onto.
Rebased(onto, upstream, h) ==
    LET k == CommonPrefixLen(upstream, h)
        theirs == Range(SubSeq(upstream, k + 1, Len(upstream)))
    IN  onto \o SelectSeq(SubSeq(h, k + 1, Len(h)), LAMBDA p : p \notin theirs)

\* rebase -p --onto <newbase> <upstream> <branch>: checks the branch out and
\* replays it; a conflict stops it with HEAD detached
GitRebase(r, argv) ==
    LET onto == Resolve(r, argv[4])
        upstream == Resolve(r, argv[5])
        branch == argv[6]
    IN  IF onto = NoCommit \/ upstream = NoCommit \/ ~IsBranch(r, branch)
        THEN { Outcome(128, "Unparsed", EmptyString, r, FALSE) }
        ELSE { Outcome(0, "none", EmptyString,
                       [r EXCEPT !.head = branch[1],
                                 !.branches[branch[1]] = Rebased(onto, upstream, @)],
                       FALSE),
               Outcome(1, "Unparsed", EmptyString, r, TRUE),
               Outcome(1, "Unparsed", EmptyString, [r EXCEPT !.head = Detached], TRUE) }

(***************************************************************************)
(* The program                                                             *)
(***************************************************************************)
V1 == "src/index.js"
V2 == "part_000"

Cmd(step, argv) == [step |-> step, argv |-> argv]
Exit(step, o) == [step |-> step, code |-> o.code, err |-> o.err]
Info(text, name) == [kind |-> "info", text |-> text, name |-> name, code |-> 0]

\* Logger.error(stderr, exitCode)
LoggerError(step, o) ==
    [kind |-> "error", text |-> step, name |-> EmptyString, code |-> o.code]

\* GitProcess.parseError(stderr): the classification, "none" for null
ParseError(o) == IF o.err = "Unparsed" THEN "none" ELSE o.err

\* What each handler prints once its git process has exited.
getCurrentGitBranchNameSays(o) ==
    IF o.code # 0 THEN <<LoggerError("revParse", o)>> ELSE <<>>

\* Mutant: the classification BranchAlreadyExists is not singled out, every
\* classified failure is logged as an error.
createBranchIfDoesNotExistSaysError(o, branchName) ==
    IF o.code # 0
    THEN IF ParseError(o) # "none"
         THEN <<LoggerError("branch", o)>>
         ELSE <<Info("Created", branchName)>>
    ELSE <<>>

createBranchIfDoesNotExistSays(o, branchName) ==
    IF o.code # 0
    THEN IF ParseError(o) # "none"
         THEN IF ParseError(o) = "BranchAlreadyExists"
              THEN <<Info("Moving", branchName)>>
              ELSE <<LoggerError("branch", o)>>
         ELSE <<Info("Created", branchName)>>
    ELSE <<>>

stashWorkingTreeSays(o) ==
    IF o.code # 0 THEN <<LoggerError("stash", o)>>
    ELSE <<Info("Stashing", EmptyString)>>

\* stashWorkingTree's return value
stashWorkingTreeReturns(o) == o.code = 0

unstashWorkingTreeSays(o) ==
    (IF o.code # 0 THEN <<LoggerError("unstash", o)>> ELSE <<>>)
        \o <<Info("Unstashed", EmptyString)>>

checkoutBranchSays(step, o) ==
    IF o.code # 0 THEN <<LoggerError(step, o)>> ELSE <<>>

cherryPickCommitsSays(o) ==
    IF o.code # 0 THEN <<LoggerError("cherryPick", o)>> ELSE <<>>

cherryPickCommitSays(o) ==
    IF o.code # 0
    THEN (IF ParseError(o) # "none"
          THEN <<Info(ParseError(o), EmptyString)>> ELSE <<>>)
         \o <<LoggerError("cherryPick", o)>>
    ELSE <<>>

pushCurrentBranchSays(o) ==
    (IF o.code # 0 THEN <<LoggerError("push", o)>> ELSE <<>>)
        \o (IF version = V2 THEN <<Info("stdout", o.stdout)>> ELSE <<>>)

removeCommitFromBranchSays(o) ==
    IF o.code # 0 THEN <<LoggerError("rebase", o)>> ELSE <<>>

\* The argument vectors the handlers build.
RevParseArgv == SplitTemplate(<<Str("rev-parse"), Str("--abbrev-ref"), Str("HEAD")>>)
DiffArgv == SplitTemplate(<<Str("diff"), Str("--quiet")>>)
StashArgv == <<Str("stash")>>
UnstashArgv == SplitTemplate(<<Str("stash"), Str("--pop")>>)
BranchArgv(branchName, startPoint) ==
    SplitTemplate(<<Str("branch"), branchName, startPoint>>)
CheckoutArgv(branchName) == SplitTemplate(<<Str("checkout"), branchName>>)
CherryPickCommitsArgv(commits) == <<Str("cherry-pick"), Join(commits)>>
CherryPickCommitArgv(commitIdentifier) ==
    SplitTemplate(<<Str("cherry-pick"), commitIdentifier>>)
PushArgv == <<Str("push")>>
RebaseArgv(commitIdentifier, branchName) ==
    SplitTemplate(<<Str("rebase"), Str("-p"), Str("--onto"),
                    Tilde(commitIdentifier), commitIdentifier, branchName>>)

\* generateBranchName({ words: 2, alliterative: true }).dashed
GeneratedBranchName == Str("gen")

\* Where a handler's continuation stops: the await it reached, the git
\* processes it spawned on the way and what it printed on the way.
Goto(step, k, argv) ==
    [pc |-> step, i |-> k, spawn |-> <<Cmd(step, argv)>>, say |-> <<>>]

Finish(a) ==
    [pc |-> "done", i |-> 0, spawn |-> <<>>,
     say |-> <<Info("Success", a.destinationBranchName)>>]

\* main, from the unstash to the end
Unstash(a, stashed) ==
    IF version = V2 /\ stashed THEN Goto("unstash", 0, UnstashArgv) ELSE Finish(a)

\* Mutant: the commit-removal loop ends after its first round.
RemoveCommitsFirstOnly(a, src, stashed, k) ==
    IF ~a.safe /\ k <= Len(a.commits) /\ k <= 1
    THEN Goto("rebase", k, RebaseArgv(Str(a.commits[k]), src))
    ELSE Unstash(a, stashed)

\* main, the commit-removal loop from its k-th round on
RemoveCommits(a, src, stashed, k) ==
    IF ~a.safe /\ k <= Len(a.commits)
    THEN Goto("rebase", k, RebaseArgv(Str(a.commits[k]), src))
    ELSE Unstash(a, stashed)

\* Mutant: the push is not conditional.
PushAlways(a, src) == Goto("push", 0, PushArgv)

\* main, from the conditional push to the checkout of the source branch
PushOrCheckout(a, src) ==
    IF a.push THEN Goto("push", 0, PushArgv)
    ELSE Goto("checkoutSource", 0, CheckoutArgv(src))

\* main, the replay: one cherry-pick of the joined list, or the loop from
\* its k-th round on
CherryPick(a, src, k) ==
    IF version = V1
    THEN IF k = 1 THEN Goto("cherryPick", 1, CherryPickCommitsArgv(a.commits))
         ELSE PushOrCheckout(a, src)
    ELSE IF k <= Len(a.commits)
         THEN Goto("cherryPick", k, CherryPickCommitArgv(Str(a.commits[k])))
         ELSE PushOrCheckout(a, src)

\* Mutant: the destination is checked out without being created first.
CheckoutWithoutCreate(a) ==
    Goto("checkoutDest", 0, CheckoutArgv(a.destinationBranchName))

\* main, the branch creation
CreateBranch(a) ==
    Goto("branch", 0, BranchArgv(a.destinationBranchName, a.startPoint))

\* isWorkingTreeDirty() as main calls it, without await: the pending promise
IsWorkingTreeDirtyCall == "[object Promise]"
Truthy(v) == v \notin {"false", "undefined", "null", "0", ""}

\* main, the stash before proceeding: the diff is spawned by the call, the
\* stash by the branch taken on the call's value
StashOrCreateBranch(a) ==
    IF version = V1 THEN CreateBranch(a)
    ELSE IF Truthy(IsWorkingTreeDirtyCall)
         THEN [pc |-> "stash", i |-> 0, say |-> <<>>,
               spawn |-> <<Cmd("diff", DiffArgv), Cmd("stash", StashArgv)>>]
         ELSE [CreateBranch(a) EXCEPT !.spawn = <<Cmd("diff", DiffArgv)>> \o @]

\* args.destinationBranchName once main has resolved it
ResolveDestination(a) ==
    IF a.destinationBranchName = Undefined
    THEN [a EXCEPT !.destinationBranchName = GeneratedBranchName]
    ELSE a

\* Mutant: a non-zero exit code ends the run.
AbortOnFailure(o, nxt) ==
    IF o.code # 0
    THEN [pc |-> "aborted", i |-> 0, spawn |-> <<>>, say |-> <<>>]
    ELSE nxt

\* Where main is once a handler has returned: a handler logs a non-zero
\* exit code and returns normally, it neither throws nor exits, so main goes
\* on to nxt whatever the outcome o.
AfterHandler(o, nxt) == nxt

\* A git process exits with outcome o, its handler prints says and main
\* runs on to nxt.
Resume(o, says, nxt) ==
    LET to == AfterHandler(o, nxt)
    IN  /\ o.fault => faults < MaxFaults
        /\ faults' = IF o.fault THEN faults + 1 ELSE faults
        /\ repo' = o.repo
        /\ exits' = Append(exits, Exit(pc, o))
        /\ out' = out \o says \o to.say
        /\ cmds' = cmds \o to.spawn
        /\ inflight' = (inflight \ {pc})
                           \cup {to.spawn[k].step : k \in DOMAIN to.spawn}
        /\ pc' = to.pc
        /\ i' = to.i

\* The command lines: lists of distinct commit identifiers.
CommitLists ==
    UNION {{s \in [1..n -> Commits] : \A j, k \in 1..n : j # k => s[j] # s[k]}
              : n \in 0..MaxCommits}

Init ==
    /\ version \in {V1, V2}
    /\ args \in [commits : CommitLists,
                 destinationBranchName : {Undefined, Str("feat")},
                 startPoint : {Str("master")},
                 push : BOOLEAN, safe : BOOLEAN]
    /\ \E feat \in {NoCommit, <<"a", "f">>},
          dirty \in IF version = V2 THEN BOOLEAN ELSE {FALSE} :
         repo = [branches |-> [b \in BranchNames |->
                                 CASE b = "master" -> <<"a">>
                                   [] b = "work" -> History("c2")
                                   [] b = "feat" -> feat
                                   [] OTHER -> NoCommit],
                 head |-> "work", dirty |-> dirty, stash |-> 0, remote |-> {}]
    /\ repo0 = repo
    /\ pc = "init"
    /\ i = 0
    /\ sourceBranchName = Undefined
    /\ hasStashedWorkingTree = FALSE
    /\ inflight = {}
    /\ cmds = <<>>
    /\ exits = <<>>
    /\ diffExit = <<>>
    /\ out = <<>>
    /\ faults = 0

\* main up to its first await
Main ==
    /\ pc = "init"
    /\ IF version = V2 /\ Len(args.commits) = 0
       THEN /\ pc' = "help"
            /\ out' = <<Info("Help", EmptyString)>>
            /\ UNCHANGED <<cmds, inflight>>
       ELSE /\ pc' = "revParse"
            /\ cmds' = <<Cmd("revParse", RevParseArgv)>>
            /\ inflight' = {"revParse"}
            /\ out' = out
    /\ UNCHANGED <<version, args, i, sourceBranchName, hasStashedWorkingTree,
                   repo, repo0, exits, diffExit, faults>>

\* getCurrentGitBranchName resumes; main resolves the destination name and
\* runs on to the stash (part_000) or the branch creation
GetCurrentGitBranchName ==
    /\ pc = "revParse"
    /\ \E o \in GitRevParse(repo) :
         /\ sourceBranchName' = Trim(o.stdout)
         /\ args' = ResolveDestination(args)
         /\ Resume(o, getCurrentGitBranchNameSays(o), StashOrCreateBranch(args'))
    /\ UNCHANGED <<version, hasStashedWorkingTree, repo0, diffExit>>

\* isWorkingTreeDirty resumes: its value goes to the promise nobody awaits
IsWorkingTreeDirty ==
    /\ "diff" \in inflight
    /\ \E code \in GitDiffQuiet(repo) : diffExit' = <<code>>
    /\ inflight' = inflight \ {"diff"}
    /\ UNCHANGED <<version, args, pc, i, sourceBranchName, hasStashedWorkingTree,
                   repo, repo0, cmds, exits, out, faults>>

StashWorkingTree ==
    /\ pc = "stash"
    /\ \E o \in GitStash(repo) :
         /\ hasStashedWorkingTree' = stashWorkingTreeReturns(o)
         /\ Resume(o, stashWorkingTreeSays(o), CreateBranch(args))
    /\ UNCHANGED <<version, args, sourceBranchName, repo0, diffExit>>

CreateBranchIfDoesNotExist ==
    /\ pc = "branch"
    /\ \E o \in GitBranch(repo, cmds[Len(cmds)].argv) :
         Resume(o, createBranchIfDoesNotExistSays(o, args.destinationBranchName),
                Goto("checkoutDest", 0, CheckoutArgv(args.destinationBranchName)))
    /\ UNCHANGED <<version, args, sourceBranchName, hasStashedWorkingTree, repo0, diffExit>>

CheckoutDestination ==
    /\ pc = "checkoutDest"
    /\ \E o \in GitCheckout(repo, cmds[Len(cmds)].argv) :
         Resume(o, checkoutBranchSays(pc, o), CherryPick(args, sourceBranchName, 1))
    /\ UNCHANGED <<version, args, sourceBranchName, hasStashedWorkingTree, repo0, diffExit>>

CherryPickCommits ==
    /\ pc = "cherryPick"
    /\ \E o \in GitCherryPick(repo, cmds[Len(cmds)].argv) :
         Resume(o, IF version = V1 THEN cherryPickCommitsSays(o)
                   ELSE cherryPickCommitSays(o),
                CherryPick(args, sourceBranchName, i + 1))
    /\ UNCHANGED <<version, args, sourceBranchName, hasStashedWorkingTree, repo0, diffExit>>

PushCurrentBranch ==
    /\ pc = "push"
    /\ \E o \in GitPush(repo) :
         Resume(o, pushCurrentBranchSays(o),
                Goto("checkoutSource", 0, CheckoutArgv(sourceBranchName)))
    /\ UNCHANGED <<version, args, sourceBranchName, hasStashedWorkingTree, repo0, diffExit>>

CheckoutSource ==
    /\ pc = "checkoutSource"
    /\ \E o \in GitCheckout(repo, cmds[Len(cmds)].argv) :
         Resume(o, checkoutBranchSays(pc, o),
                RemoveCommits(args, sourceBranchName, hasStashedWorkingTree, 1))
    /\ UNCHANGED <<version, args, sourceBranchName, hasStashedWorkingTree, repo0, diffExit>>

RemoveCommitFromBranch ==
    /\ pc = "rebase"
    /\ \E o \in GitRebase(repo, cmds[Len(cmds)].argv) :
         Resume(o, removeCommitFromBranchSays(o),
                RemoveCommits(args, sourceBranchName, hasStashedWorkingTree, i + 1))
    /\ UNCHANGED <<version, args, sourceBranchName, hasStashedWorkingTree, repo0, diffExit>>

UnstashWorkingTree ==
    /\ pc = "unstash"
    /\ \E o \in GitStashPop(repo, cmds[Len(cmds)].argv) :
         Resume(o, unstashWorkingTreeSays(o), Finish(args))
    /\ UNCHANGED <<version, args, sourceBranchName, hasStashedWorkingTree, repo0, diffExit>>

Next ==
    \/ Main
    \/ GetCurrentGitBranchName
    \/ IsWorkingTreeDirty
    \/ StashWorkingTree
    \/ CreateBranchIfDoesNotExist
    \/ CheckoutDestination
    \/ CherryPickCommits
    \/ PushCurrentBranch
    \/ CheckoutSource
    \/ RemoveCommitFromBranch
    \/ UnstashWorkingTree

Spec == Init /\ [][Next]_vars

\* The same run with every git process exiting in the end (no timeout is
\* imposed: an exec resolves when its process exits).
FairSpec == Spec /\ WF_vars(Next)

(***************************************************************************)
(* Vocabulary of the properties                                            *)
(***************************************************************************)
\* The branch that was checked out when the run started.
SourceBranch == repo0.head
\* The destination branch of the run (its name once resolved).
Destination == ResolveDestination(args).destinationBranchName[1]
\* The success message has been printed.
Completed == pc = "done"
Issued(step) == {k \in DOMAIN cmds : cmds[k].step = step}
Exited(step) == {k \in DOMAIN exits : exits[k].step = step}
\* Commit identifier c is in the history of a branch with history h.
InHistory(c, h) == IsPrefix(History(c), h)
\* The patch of commit c has been replayed on a branch with history h.
Replayed(c, h) == History(c)[Len(History(c))] \in Range(h)
Mutating == {"stash", "branch", "checkoutDest", "cherryPick", "push",
             "checkoutSource", "rebase", "unstash"}

\* C1: after a completed run with a non-empty commit list and safe=false,
\* every supplied commit is absent from the source branch's history and
\* replayed on the destination branch, whatever the commands' exit codes.
YankedCommitsMoved ==
    (Completed /\ Len(args.commits) > 0 /\ ~args.safe) =>
        \A k \in DOMAIN args.commits :
            /\ ~InHistory(args.commits[k], repo.branches[SourceBranch])
            /\ Replayed(args.commits[k], repo.branches[Destination])

\* C2: with safe=true no rebase is ever issued, and at completion the source
\* branch holds the commits it held at the start, whatever the exit codes.
SafeLeavesSourceUnchanged ==
    args.safe =>
        /\ Issued("rebase") = {}
        /\ Completed =>
              Range(repo.branches[SourceBranch]) = Range(repo0.branches[SourceBranch])

\* C3: when a run with a non-empty commit list prints the success message,
\* the destination branch exists and HEAD is the source branch captured at
\* the start.
CompletedOnSourceBranch ==
    (Completed /\ Len(args.commits) > 0) =>
        /\ repo.branches[Destination] # NoCommit
        /\ sourceBranchName = Str(repo.head)

\* C4: with an empty commit list the run shows help and issues no command
\* that mutates the repository: no branch is created and HEAD stays.
EmptyListMutatesNothing ==
    Len(args.commits) = 0 =>
        /\ \A k \in DOMAIN cmds : cmds[k].step \notin Mutating
        /\ Completed \/ pc = "help" =>
              pc = "help" /\ Info("Help", EmptyString) \in Range(out)
        /\ repo.branches = repo0.branches
        /\ repo.head = repo0.head

\* The branch-creation step found the destination branch to exist already.
BranchAlreadyExisted ==
    \E k \in Exited("branch") : exits[k].err = "BranchAlreadyExists"

\* C5: when the branch command fails because the destination branch exists,
\* no error is reported for it and the user is told the commits move into
\* the existing branch; the branch is left where it was; and the run goes on
\* to check that branch out and to issue the cherry-pick.
ExistingBranchIsReused ==
    BranchAlreadyExisted =>
        /\ Info("Moving", args.destinationBranchName) \in Range(out)
        /\ \A k \in DOMAIN out : ~(out[k].kind = "error" /\ out[k].text = "branch")
        /\ Info("Created", args.destinationBranchName) \notin Range(out)
        /\ pc = "checkoutDest" => repo.branches = repo0.branches
        /\ \E k \in Issued("checkoutDest") :
              cmds[k].argv = <<Str("checkout"), args.destinationBranchName>>
        /\ Completed => Issued("cherryPick") # {}

\* C5 witness: a completed run whose branch command found the branch "feat".
ExistingBranchWitness ==
    /\ BranchAlreadyExisted
    /\ Completed
    /\ args.destinationBranchName = Str("feat")
    /\ Replayed("c1", repo.branches["feat"])

\* The git of this model carried out every command it could carry out.
NoFault == faults = 0

RECURSIVE Patches(_)
\* The patches a list of commit identifiers names, in the list's order.
Patches(commits) ==
    IF commits = <<>> THEN <<>>
    ELSE <<History(Head(commits))[Len(History(Head(commits)))]>>
             \o Patches(Tail(commits))

\* C6: a completed run with two or more commits, a newly created destination
\* branch and no command failed by git leaves the destination branch with the
\* start point's history followed by the commits in the order supplied.
ReplayedInOrder ==
    (/\ Completed
     /\ Len(args.commits) >= 2
     /\ \E k \in Exited("branch") : exits[k].code = 0
     /\ NoFault) =>
        repo.branches[Destination]
            = repo0.branches[args.startPoint[1]] \o Patches(args.commits)

\* C7: push is issued only with the push flag set; a completed run has
\* issued it once with the flag and never without; it carries no argument
\* and comes after every cherry-pick and before the checkout of the source.
PushOnlyWhenAsked ==
    /\ ~args.push => Issued("push") = {}
    /\ Cardinality(Issued("push")) <= 1
    /\ Completed => Cardinality(Issued("push")) = (IF args.push THEN 1 ELSE 0)
    /\ \A k \in Issued("push") :
          /\ cmds[k].argv = <<Str("push")>>
          /\ Issued("cherryPick") # {}
          /\ \A j \in Issued("cherryPick") : j < k
          /\ \A j \in Issued("checkoutSource") : k < j
          /\ pc = "push" => Issued("checkoutSource") = {}

\* C7 witness: a completed run that pushed the destination branch.
PushWitness ==
    Completed /\ args.push /\ Issued("push") # {} /\ Destination \in repo.remote

\* C9: at most one git process is in flight at any moment.
OneProcessInFlight == Cardinality(inflight) <= 1

\* The success message names the destination branch that the branch and
\* checkout commands of the run were given.
SuccessNamesDestination ==
    /\ out # <<>>
    /\ out[Len(out)] = Info("Success", args.destinationBranchName)
    /\ Issued("branch") # {}
    /\ \A k \in Issued("branch") \cup Issued("checkoutDest") :
          cmds[k].argv[2] = args.destinationBranchName

\* C8: every run with a non-empty commit list reaches the end and prints the
\* success message naming the destination branch used for the branch and
\* checkout commands, whatever exit codes git returns.
RunCompletes ==
    (pc = "init" /\ Len(args.commits) > 0)
        ~> (Completed /\ SuccessNamesDestination)

\* C8 witness: a run completed although two of its commands failed, one of
\* them a rebase.
CompletedDespiteFailures ==
    /\ Completed
    /\ SuccessNamesDestination
    /\ Cardinality({k \in DOMAIN exits : exits[k].code # 0}) >= 2
    /\ \E k \in Exited("rebase") : exits[k].code # 0

\* The place of a step in the sequence and the git subcommand it runs.
Rank(step) ==
    CASE step = "revParse" -> 1
      [] step = "diff" -> 2
      [] step = "stash" -> 3
      [] step = "branch" -> 4
      [] step = "checkoutDest" -> 5
      [] step = "cherryPick" -> 6
      [] step = "push" -> 7
      [] step = "checkoutSource" -> 8
      [] step = "rebase" -> 9
      [] step = "unstash" -> 10

Subcommand(step) ==
    CASE step = "revParse" -> "rev-parse"
      [] step = "diff" -> "diff"
      [] step \in {"stash", "unstash"} -> "stash"
      [] step = "branch" -> "branch"
      [] step \in {"checkoutDest", "checkoutSource"} -> "checkout"
      [] step = "cherryPick" -> "cherry-pick"
      [] step = "push" -> "push"
      [] step = "rebase" -> "rebase"

\* The step that precedes each step in every run.
Before(step) ==
    CASE step = "branch" -> "revParse"
      [] step = "checkoutDest" -> "branch"
      [] step = "cherryPick" -> "checkoutDest"
      [] step = "push" -> "cherryPick"
      [] step = "checkoutSource" -> "cherryPick"
      [] step = "rebase" -> "checkoutSource"
      [] OTHER -> "revParse"

\* C10: the commands are issued in the order rev-parse, branch, checkout of
\* the destination, cherry-pick, push, checkout of the source, rebases: no
\* command is issued before a command of an earlier step, each step but the
\* replay and the removal issues one command at most, and the branch command
\* names the resolved destination.
CommandsInOrder ==
    /\ \A j, k \in DOMAIN cmds : j < k => Rank(cmds[j].step) <= Rank(cmds[k].step)
    /\ \A k \in DOMAIN cmds :
          /\ cmds[k].argv[1] = Str(Subcommand(cmds[k].step))
          /\ \E j \in Issued(Before(cmds[k].step)) : j <= k
    /\ \A step \in {"revParse", "branch", "checkoutDest", "push", "checkoutSource"} :
          Cardinality(Issued(step)) <= 1
    /\ \A k \in Issued("branch") :
          /\ cmds[k].argv[2] # Undefined
          /\ cmds[k].argv = <<Str("branch"), args.destinationBranchName, args.startPoint>>
    /\ \A k \in Issued("checkoutDest") :
          cmds[k].argv = <<Str("checkout"), args.destinationBranchName>>
    /\ \A k \in Issued("checkoutSource") :
          cmds[k].argv = <<Str("checkout"), sourceBranchName>>

\* C10 witness: a completed run that issued every step of the sequence, the
\* destination name being a generated one.
EveryStepIssued ==
    /\ Completed
    /\ \A step \in {"revParse", "branch", "checkoutDest", "cherryPick", "push",
                      "checkoutSource", "rebase"} : Issued(step) # {}
    /\ args.destinationBranchName = GeneratedBranchName

\* The steps of the sequence proper (the stash handling of part_000 aside).
SequenceSteps == {"revParse", "branch", "checkoutDest", "cherryPick", "push",
                  "checkoutSource", "rebase"}

\* The error reports printed for a step, and the failures of the step that
\* call for one (a branch that exists already is no failure).
Reports(step) == {k \in DOMAIN out : out[k].kind = "error" /\ out[k].text = step}
Failures(step) ==
    {k \in Exited(step) : exits[k].code # 0 /\ exits[k].err # "BranchAlreadyExists"}

\* The commands of the sequence proper that the request calls for, with the
\* arguments they have when every step succeeds.
RequestedCommands ==
    LET dest == ResolveDestination(args).destinationBranchName
        src == Str(SourceBranch)
        n == Len(args.commits)
    IN  <<Cmd("revParse", RevParseArgv),
          Cmd("branch", BranchArgv(dest, args.startPoint)),
          Cmd("checkoutDest", CheckoutArgv(dest))>>
        \o (IF version = V1
            THEN <<Cmd("cherryPick", CherryPickCommitsArgv(args.commits))>>
            ELSE [k \in 1..n |->
                     Cmd("cherryPick", CherryPickCommitArgv(Str(args.commits[k])))])
        \o (IF args.push THEN <<Cmd("push", PushArgv)>> ELSE <<>>)
        \o <<Cmd("checkoutSource", CheckoutArgv(src))>>
        \o (IF args.safe THEN <<>>
            ELSE [k \in 1..n |->
                     Cmd("rebase", RebaseArgv(Str(args.commits[k]), src))])

\* C11: every non-zero exit code of rev-parse, branch, checkout, cherry-pick,
\* push or rebase is reported through the error logger, and the run goes on:
\* a completed run has issued every command the request calls for, with the
\* arguments it has when no step fails.
FailuresReportedRunGoesOn ==
    /\ \A step \in SequenceSteps :
          Cardinality(Reports(step)) = Cardinality(Failures(step))
    /\ Completed =>
          SelectSeq(cmds, LAMBDA c : c.step \in SequenceSteps) = RequestedCommands

\* The user has been told that the destination branch was newly created.
ToldCreated == Info("Created", args.destinationBranchName) \in Range(out)

\* C12: once the branch command of the ensure-destination-branch step has
\* exited, the user has been told that the branch was newly created exactly
\* when that command returned exit code 0.
CreatedToldExactlyOnExitZero ==
    \A k \in Exited("branch") : ToldCreated <=> exits[k].code = 0

\* C13: whenever the branch command exits non-zero and its stderr is not
\* classified as BranchAlreadyExists (classified as another error or not
\* classified at all), the error text and that exit code are reported
\* through the error logger.
UnexpectedBranchFailureLogged ==
    \A k \in Failures("branch") :
        \E j \in Reports("branch") : out[j].code = exits[k].code

\* The outcome of one cherry-pick process under a pattern of failures: the
\* failure the environment may decide happens when fails says so.
PickOutcome(outcomes, fails) ==
    IF fails /\ \E o \in outcomes : o.fault
    THEN CHOOSE o \in outcomes : o.fault
    ELSE CHOOSE o \in outcomes : ~o.fault

\* The replay of part_000 from its k-th round on, from repository r: one
\* cherry-pick per identifier, in order, going on after a failure; failing
\* is the set of rounds whose cherry-pick the environment fails.
RECURSIVE ReplayEach(_, _, _, _)
ReplayEach(r, commits, failing, k) ==
    IF k > Len(commits) THEN [repo |-> r, says |-> <<>>]
    ELSE LET o == PickOutcome(
                      GitCherryPick(r, CherryPickCommitArgv(Str(commits[k]))),
                      k \in failing)
             rest == ReplayEach(o.repo, commits, failing, k + 1)
         IN  [repo |-> rest.repo, says |-> cherryPickCommitSays(o) \o rest.says]

\* The replay of src/src/index.js from repository r: one cherry-pick of the
\* identifiers joined by a space, failed by the environment when any round
\* is to fail.
ReplayJoined(r, commits, failing) ==
    LET o == PickOutcome(GitCherryPick(r, CherryPickCommitsArgv(commits)),
                         failing # {})
    IN  [repo |-> o.repo, says |-> cherryPickCommitsSays(o)]

\* The replay is about to run: its first cherry-pick is in flight.
ReplayStarts == pc = "cherryPick" /\ i = 1 /\ Exited("cherryPick") = {}

\* C14: from the repository in which the replay starts, for every non-empty
\* commit list and every pattern of per-commit cherry-pick failures, one
\* cherry-pick per identifier in order and the single cherry-pick of the
\* joined identifiers leave the same branches and report the same failures.
ReplayStrategiesAgree ==
    (ReplayStarts /\ Len(args.commits) > 0) =>
        \A failing \in SUBSET (1..Len(args.commits)) :
            ReplayEach(repo, args.commits, failing, 1)
                = ReplayJoined(repo, args.commits, failing)

\* The rebase commands issued so far, in the order of their issue.
Rebases == SelectSeq(cmds, LAMBDA c : c.step = "rebase")

\* C15: with safe=false the rebase commands issued are, in order, one per
\* supplied identifier, the k-th removing the k-th identifier from the branch
\* name captured by the rev-parse at the start of the run (the source branch
\* when that rev-parse succeeded); every failed rebase is reported, and a
\* completed run has issued the rebase of every identifier.
OneRebasePerCommitInOrder ==
    ~args.safe =>
        /\ Len(Rebases) <= Len(args.commits)
        /\ \A k \in DOMAIN Rebases :
              /\ Rebases[k].argv
                    = RebaseArgv(Str(args.commits[k]), sourceBranchName)
              /\ (exits[1].code = 0) =>
                    Rebases[k].argv
                      = <<Str("rebase"), Str("-p"), Str("--onto"),
                          Str(args.commits[k] \o "~"), Str(args.commits[k]),
                          Str(SourceBranch)>>
        /\ Cardinality(Reports("rebase"))
              = Cardinality({k \in Exited("rebase") : exits[k].code # 0})
        /\ pc = "rebase" => Len(Rebases) = i
        /\ Completed => Len(Rebases) = Len(args.commits)

\* A run that removes two commits has completed although the rebase of the
\* first one failed: the second rebase was issued all the same.
RebaseFailedOthersIssued ==
    /\ Completed /\ ~args.safe /\ Len(args.commits) = 2
    /\ Len(Rebases) = 2
    /\ \E k \in Exited("rebase") :
          /\ exits[k].code # 0
          /\ \E j \in Exited("rebase") : j > k

\* C16: while a cherry-pick or the push is in flight the destination branch
\* is the active branch; and up to the checkout back no commit has been
\* replayed onto the source branch and the source branch has not been pushed,
\* whatever the exit codes of the branch and checkout commands before.
ReplayAndPushOnDestination ==
    /\ pc \in {"cherryPick", "push"} => repo.head = Destination
    /\ pc \in {"cherryPick", "push", "checkoutSource"} =>
          /\ repo.branches[SourceBranch] = repo0.branches[SourceBranch]
          /\ SourceBranch \notin repo.remote

\* C17: the stash command is issued only once diff --quiet has returned exit
\* code 1; when diff --quiet has returned 0 (a clean working tree) no stash
\* and no unstash command has been issued.
StashOnlyWhenDirty ==
    /\ Issued("stash") # {} => diffExit = <<1>>
    /\ diffExit = <<0>> => Issued("stash") = {} /\ Issued("unstash") = {}

\* The stash command has returned exit code 0.
StashSucceeded == \E k \in Exited("stash") : exits[k].code = 0

\* C18: the unstash command is issued only if the stash command returned
\* exit code 0, and a completed run whose stash returned 0 has issued it; it
\* is issued once at most, after the checkout back to the source branch and
\* every commit-removal rebase have exited, and it has exited before the
\* success message; and it runs with the source branch checked out.
UnstashFollowsStashOnSource ==
    /\ Issued("unstash") # {} => StashSucceeded
    /\ (Completed /\ StashSucceeded) => Exited("unstash") # {}
    /\ Cardinality(Issued("unstash")) <= 1
    /\ Issued("unstash") # {} =>
          /\ Exited("checkoutSource") # {}
          /\ ~args.safe => Cardinality(Exited("rebase")) = Len(args.commits)
    /\ pc = "unstash" => Info("Success", args.destinationBranchName) \notin Range(out)
    /\ pc = "unstash" => repo.head = SourceBranch

====
